---- MODULE Spec2Model ----
(***************************************************************************)
(* Model of the belief rule-base engine of src/brb/brb.py: the classes     *)
(* AttributeInput, Rule and RuleBaseModel.                                 *)
(*                                                                         *)
(* Conventions.                                                            *)
(*  - A Python dict is a function; its keys are its DOMAIN.  Where the     *)
(*    code iterates a dict, the iteration follows KeyOrder.                *)
(*  - A Python list is a sequence.                                         *)
(*  - A call ends in an Outcome: a return with a value, or a raise with    *)
(*    the exception class, the source line that raised, and the            *)
(*    exception's args.  `assert c` with no message raises                 *)
(*    AssertionError with empty args (assert statements are enabled, as    *)
(*    under the default interpreter).                                      *)
(*  - A Python float produced by true division is an exact fraction        *)
(*    num/den in lowest terms; the weights are small integers, for which   *)
(*    d / m = 1.0 exactly when d = m.                                      *)
(*  - The class bodies are modelled as loaded.  The annotation of          *)
(*    AttributeInput.__init__ names Tuple, which is not imported: under    *)
(*    an interpreter that evaluates annotations at definition time the     *)
(*    module does not import and no operation can be called at all.        *)
(***************************************************************************)
EXTENDS Integers, Sequences, FiniteSets, TLC

VARIABLES U, A, D, F, rules, new_rule, args, X, op, outcome

vars == <<U, A, D, F, rules, new_rule, args, X, op, outcome>>

vocabulary == <<U, A, D, F>>

\* ---------------------------------------------------------------- bounds
MaxWeight == 2
MaxRules == 2

\* ------------------------------------------------------- generic helpers
Range(s) == {s[i] : i \in DOMAIN s}

PartialFns(S, T) == UNION {[K -> T] : K \in SUBSET S}

SeqsUpTo(S, n) == UNION {[1..k -> S] : k \in 0..n}

RECURSIVE GCD(_, _)
GCD(a, b) == IF b = 0 THEN a ELSE GCD(b, a % b)

MaxOf(S) == CHOOSE m \in S : \A x \in S : x <= m

MinOf(S) == CHOOSE m \in S : \A x \in S : m <= x

\* dict iteration order (insertion order of the keys used here)
KeyOrder == <<"a1", "a2", "zz">>

Pos(k) == CHOOSE i \in DOMAIN KeyOrder : KeyOrder[i] = k

FirstKey(S) == CHOOSE k \in S : \A j \in S : Pos(k) <= Pos(j)

\* ----------------------------------------------------------- Python values
PyNone == [type |-> "NoneType", num |-> 0, den |-> 1]

PyFloat(n, d) == [type |-> "float", num |-> n, den |-> d]

\* true division of two integers, m # 0
TrueDiv(d, m) == PyFloat(d \div GCD(d, m), m \div GCD(d, m))

Return(v) == [kind |-> "return", exc |-> "", line |-> 0, args |-> <<>>, value |-> v]

Raise(e, l, a) == [kind |-> "raise", exc |-> e, line |-> l, args |-> a, value |-> PyNone]

\* ------------------------------------------------------------------ Rule
\* Rule.__init__: a weight must exist for every antecedent attribute
Rule__init__(A_values, delta, theta, beta) ==
    IF \E U_i \in DOMAIN A_values : U_i \notin DOMAIN delta
    THEN Raise("AssertionError", 38, <<>>)
    ELSE Return(PyNone)

\* Rule._assert_input: the condition of the assert
assert_input(rule, x) ==
    (DOMAIN rule.A_values \cap DOMAIN x) = DOMAIN rule.A_values

\* line 49, the divisor
max_delta(rule) == MaxOf(Range(rule.delta))

\* line 49 raises when some item is divided by a zero maximum; with an
\* empty delta no item is evaluated and max() is never called
norm_delta_raises(rule) == DOMAIN rule.delta # {} /\ max_delta(rule) = 0

\* variant of norm_delta that leaves the weights undivided
norm_delta_unscaled(rule) ==
    [attr \in DOMAIN rule.delta |-> PyFloat(rule.delta[attr], 1)]

\* line 49, the dict comprehension
norm_delta(rule) ==
    [attr \in DOMAIN rule.delta |-> TrueDiv(rule.delta[attr], max_delta(rule))]

\* operand types for which Python defines l ^ r
XorDefined(l, r) == l.type \in {"int", "bool"} /\ r.type \in {"int", "bool"}

get_matching_degree(rule, x) ==
    IF ~assert_input(rule, x)
    THEN Raise("AssertionError", 61, <<>>)
    ELSE IF norm_delta_raises(rule)
    THEN Raise("ZeroDivisionError", 49, <<"division by zero">>)
    ELSE IF \E attr \in DOMAIN rule.A_values :
                ~XorDefined(x[attr], norm_delta(rule)[attr])
    THEN Raise("TypeError", 50, <<"unsupported operand type(s) for ^">>)
    \* every element of weighted_alpha that could be built is excluded
    \* above, so the list is empty here and np.prod([]) is 1.0
    ELSE Return(PyFloat(1, 1))

\* --------------------------------------------------------- RuleBaseModel
\* str == dict_keys: neither side implements it, identity decides
StrEqDictKeys(s, keys) == FALSE

\* variant of DictKeysInList: every key is an element of the list
KeysSubsetOfList(keys, lst) == keys \subseteq Range(lst)

\* line 90: `new_rule.A_values.keys() in self.U`
DictKeysInList(keys, lst) == \E i \in DOMAIN lst : StrEqDictKeys(lst[i], keys)

\* lines 93-94: the items whose assert does not pass
BadItems(r) ==
    {U_i \in DOMAIN r.A_values :
        U_i \notin DOMAIN A \/ r.A_values[U_i] \notin Range(A[U_i])}

\* variant of add_rule that appends before it validates
add_rule_append_first(self_rules, r) ==
    IF ~DictKeysInList(DOMAIN r.A_values, U)
    THEN [outcome |-> Raise("AssertionError", 90, <<>>), rules |-> Append(self_rules, r)]
    ELSE [outcome |-> Return(PyNone), rules |-> Append(self_rules, r)]

\* RuleBaseModel.add_rule: the outcome and the rules list after the call
add_rule(self_rules, r) ==
    IF ~DictKeysInList(DOMAIN r.A_values, U)
    THEN [outcome |-> Raise("AssertionError", 90, <<>>), rules |-> self_rules]
    ELSE IF BadItems(r) # {}
    THEN IF FirstKey(BadItems(r)) \notin DOMAIN A
         THEN [outcome |-> Raise("KeyError", 94, <<FirstKey(BadItems(r))>>),
               rules |-> self_rules]
         ELSE [outcome |-> Raise("AssertionError", 94, <<>>), rules |-> self_rules]
    ELSE IF \E D_n \in DOMAIN r.beta : D_n \notin Range(D)
    THEN [outcome |-> Raise("AssertionError", 98, <<>>), rules |-> self_rules]
    ELSE [outcome |-> Return(PyNone), rules |-> Append(self_rules, r)]

\* line 113: the rules whose matching degree raises
RaisingRules(self_rules, x) ==
    {k \in DOMAIN self_rules : get_matching_degree(self_rules[k], x).kind = "raise"}

\* variant of run without the check of lines 109-110
run_unvalidated(self_rules, x) ==
    IF RaisingRules(self_rules, x) # {}
    THEN get_matching_degree(self_rules[MinOf(RaisingRules(self_rules, x))], x)
    ELSE Return(PyNone)

\* RuleBaseModel.run: the list comprehension evaluates the rules in order and
\* the first exception leaves run; otherwise run falls off its end
run(self_rules, x) ==
    IF \E U_i \in DOMAIN x : U_i \notin Range(U)
    THEN Raise("AssertionError", 110, <<>>)
    ELSE IF RaisingRules(self_rules, x) # {}
    THEN get_matching_degree(self_rules[MinOf(RaisingRules(self_rules, x))], x)
    ELSE Return(PyNone)

\* ------------------------------------------------------ inputs of the calls
AValuesArgs ==
    PartialFns({"a1", "a2"}, {"hi"}) \cup {[a1 |-> "bad"], [zz |-> "hi"]}

DeltaArgs == PartialFns({"a1", "a2"}, 0..MaxWeight) \cup {[zz |-> 1]}

BetaArgs == {[ok |-> 1], [bogus |-> 1]}

RuleArgs ==
    [A_values : AValuesArgs, delta : DeltaArgs, theta : {1}, beta : BetaArgs]

Evidence == {[type |-> "tuple", value |-> "hi", degree |-> 1],
             [type |-> "tuple", value |-> "lo", degree |-> 1],
             [type |-> "tuple", value |-> "hi", degree |-> 0]}

Inputs == PartialFns({"a1", "zz"}, Evidence)

NoInput == [k \in {} |-> [type |-> "tuple", value |-> "hi", degree |-> 1]]

NoArgs == [A_values |-> [k \in {} |-> "hi"], delta |-> [k \in {} |-> 0],
           theta |-> 1, beta |-> [ok |-> 1]]

\* rules a populated rule list is drawn from
QRules ==
    {[A_values |-> [k \in {} |-> "hi"], delta |-> [a1 |-> 1], theta |-> 1, beta |-> [ok |-> 1]],
     [A_values |-> [k \in {} |-> "hi"], delta |-> [k \in {} |-> 0], theta |-> 1, beta |-> [ok |-> 1]],
     [A_values |-> [a1 |-> "hi"], delta |-> [a1 |-> 1], theta |-> 1, beta |-> [ok |-> 1]],
     [A_values |-> [a1 |-> "hi"], delta |-> [a1 |-> 0], theta |-> 1, beta |-> [ok |-> 1]],
     [A_values |-> [a2 |-> "hi"], delta |-> [a1 |-> 2, a2 |-> 1], theta |-> 1, beta |-> [ok |-> 1]]}

\* ------------------------------------------------------------------ state
\* RuleBaseModel.__init__
InitModel ==
    /\ U = <<"a1", "a2">>
    /\ A = [a1 |-> <<"lo", "hi">>, a2 |-> <<"lo", "hi">>]
    /\ D = <<"ok", "fail">>
    /\ F = "None"
    /\ new_rule = <<>>
    /\ args = NoArgs
    /\ X = NoInput
    /\ op = "RuleBaseModel"
    /\ outcome = Return(PyNone)

Init == InitModel /\ rules = <<>>

\* a model whose public rules list already holds constructed rules
InitQuery == InitModel /\ rules \in SeqsUpTo(QRules, MaxRules)

\* new_rule = Rule(A_values, delta, theta, beta)
CallRule(a) ==
    /\ args' = a
    /\ outcome' = Rule__init__(a.A_values, a.delta, a.theta, a.beta)
    /\ new_rule' = IF outcome'.kind = "return" THEN <<a>> ELSE <<>>
    /\ op' = "Rule"
    /\ UNCHANGED <<U, A, D, F, rules, X>>

\* model.add_rule(new_rule)
CallAddRule ==
    /\ new_rule # <<>>
    /\ Len(rules) < MaxRules
    /\ outcome' = add_rule(rules, new_rule[1]).outcome
    /\ rules' = add_rule(rules, new_rule[1]).rules
    /\ op' = "add_rule"
    /\ UNCHANGED <<U, A, D, F, new_rule, args, X>>

\* new_rule.get_matching_degree(AttributeInput(x))
CallGetMatchingDegree(x) ==
    /\ new_rule # <<>>
    /\ X' = x
    /\ outcome' = get_matching_degree(new_rule[1], x)
    /\ op' = "get_matching_degree"
    /\ UNCHANGED <<U, A, D, F, rules, new_rule, args>>

\* variant of CallRun in which run drops the first rule
CallRunClear(x) ==
    /\ X' = x
    /\ outcome' = run(rules, x)
    /\ op' = "run"
    /\ rules' = IF rules = <<>> THEN rules ELSE Tail(rules)
    /\ UNCHANGED <<U, A, D, F, new_rule, args>>

\* model.run(AttributeInput(x))
CallRun(x) ==
    /\ X' = x
    /\ outcome' = run(rules, x)
    /\ op' = "run"
    /\ UNCHANGED <<U, A, D, F, rules, new_rule, args>>

Next ==
    \/ \E a \in RuleArgs : CallRule(a)
    \/ CallAddRule
    \/ \E x \in Inputs : CallGetMatchingDegree(x)
    \/ \E x \in Inputs : CallRun(x)

NextQuery == \E x \in Inputs : CallRun(x)

Spec == Init /\ [][Next]_vars

SpecQuery == InitQuery /\ [][NextQuery]_vars

\* ------------------------------------------------- vocabulary of the claims
\* the error kinds, identified by the statement that raises them
InvalidRule(o) ==
    o.kind = "raise" /\ o.exc = "AssertionError" /\ o.line \in {38, 90, 94, 98}

UnknownAttribute(o) ==
    o.kind = "raise" /\ o.exc = "AssertionError" /\ o.line = 110

MissingEvidence(o) ==
    o.kind = "raise" /\ o.exc = "AssertionError" /\ o.line = 61

\* I1-I4 of a rule against the vocabulary
RuleValid(r) ==
    /\ DOMAIN r.A_values \subseteq Range(U)
    /\ DOMAIN r.delta \subseteq Range(U)
    /\ \A a \in DOMAIN r.A_values : r.A_values[a] \in Range(A[a])
    /\ DOMAIN r.beta \subseteq Range(D)
    /\ DOMAIN r.A_values \subseteq DOMAIN r.delta

MissingWeight(a) == ~(DOMAIN a.A_values \subseteq DOMAIN a.delta)

RuleViolates(r) ==
    \/ ~(DOMAIN r.A_values \subseteq Range(U))
    \/ \E a \in DOMAIN r.A_values : a \in DOMAIN A /\ r.A_values[a] \notin Range(A[a])
    \/ ~(DOMAIN r.beta \subseteq Range(D))
    \/ MissingWeight(r)

AllZero(r) == DOMAIN r.delta # {} /\ \A a \in DOMAIN r.delta : r.delta[a] = 0

Undeclared(x) == {U_i \in DOMAIN x : U_i \notin Range(U)}

LacksEvidence(r, x) == ~(DOMAIN r.A_values \subseteq DOMAIN x)

\* the belief degree x assigns to the value the rule requires is 0 or absent
ZeroMatch(r, x) ==
    \E a \in DOMAIN r.A_values :
        a \notin DOMAIN x \/ x[a].value # r.A_values[a] \/ x[a].degree = 0

NoRuleActivated(rs, x) == \A k \in DOMAIN rs : ZeroMatch(rs[k], x)

RECURSIVE SumOver(_, _)
SumOver(f, S) ==
    IF S = {} THEN 0
    ELSE LET e == CHOOSE e \in S : TRUE IN f[e] + SumOver(f, S \ {e})

\* a result of run: masses in units of 1/den
IsBeliefResult(v) ==
    /\ v.type = "result"
    /\ DOMAIN v.belief = Range(D)
    /\ \A d \in Range(D) : 0 <= v.belief[d] /\ v.belief[d] <= v.den
    /\ SumOver(v.belief, Range(D)) + v.ignorance = v.den

IsFullIgnorance(v) ==
    /\ v.type = "result"
    /\ v.ignorance = v.den
    /\ \A d \in Range(D) : v.belief[d] = 0

\* ----------------------------------------------------------------- claims
\* C1: add_rule with a rule satisfying I1-I4 succeeds and rules becomes the
\* previous sequence with that rule appended as its last element.
C1_ValidRuleAppended ==
    [][(op' = "add_rule" /\ RuleValid(new_rule'[1]))
        => (outcome'.kind = "return" /\ rules' = Append(rules, new_rule'[1]))]_vars

\* C2: a rule that violates a structural invariant (undeclared antecedent
\* attribute, antecedent value outside its domain, consequent key outside the
\* consequent domain, missing weight) is refused with InvalidRule, by add_rule
\* or already by the construction of the Rule, and rules is unchanged.
C2_InvalidRuleRejected ==
    [][/\ (op' = "add_rule" /\ RuleViolates(new_rule'[1]))
            => (InvalidRule(outcome') /\ rules' = rules)
       /\ (op' = "Rule" /\ MissingWeight(args'))
            => (InvalidRule(outcome') /\ new_rule' = <<>> /\ rules' = rules)]_vars

C2_Witness ==
    /\ op = "add_rule"
    /\ new_rule[1].A_values = [a1 |-> "bad"]
    /\ InvalidRule(outcome)
    /\ rules = <<>>

C4_MissingEvidenceContained ==
    (/\ op = "run"
     /\ Undeclared(X) = {}
     /\ \E k \in DOMAIN rules : LacksEvidence(rules[k], X))
        => ~MissingEvidence(outcome)

\* C5: a run call that passes input validation returns a belief distribution
\* over the consequent domain plus a residual ignorance, every degree in
\* [0,1] and the degrees plus the ignorance summing to 1.
C5_MassConserved ==
    (op = "run" /\ Undeclared(X) = {})
        => (outcome.kind = "return" /\ IsBeliefResult(outcome.value))

\* C6: when no rule is activated (no rules, or every rule has matching degree
\* 0), run returns residual ignorance 1 and belief degree 0 for every
\* consequent value.
C6_NoActivationFullIgnorance ==
    (op = "run" /\ Undeclared(X) = {} /\ NoRuleActivated(rules, X))
        => (outcome.kind = "return" /\ IsFullIgnorance(outcome.value))

\* C7: run changes neither rules nor the vocabulary, whether it returns or
\* raises, and run again with the same input gives the same outcome.
C7_RunIsPure ==
    [][op' = "run" =>
        /\ rules' = rules
        /\ vocabulary' = vocabulary
        /\ (op = "run" /\ X' = X) => outcome' = outcome]_vars

C7_Witness ==
    /\ op = "run"
    /\ rules # <<>>
    /\ outcome.kind = "raise"
    /\ outcome.line # 110

\* the normalisation of get_matching_degree is computed for the built rule
NormComputed ==
    /\ op = "get_matching_degree"
    /\ assert_input(new_rule[1], X)
    /\ DOMAIN new_rule[1].A_values # {}
    /\ ~norm_delta_raises(new_rule[1])

MaxAntecedents(r) ==
    {a \in DOMAIN r.A_values :
        \A b \in DOMAIN r.A_values : r.delta[b] <= r.delta[a]}

\* C8 as stated: for any rule, also one with weights for attributes that are
\* not antecedents, the normalized weight computed for the maximally-weighted
\* antecedent is exactly 1.
C8_MaxAntecedentIsOne ==
    NormComputed =>
        \A a \in MaxAntecedents(new_rule[1]) :
            norm_delta(new_rule[1])[a] = PyFloat(1, 1)

\* C8 amended: the normalized weight computed for the maximally-weighted
\* attribute of the weights mapping is exactly 1; the maximally-weighted
\* antecedent has normalized weight exactly 1 if and only if no attribute of
\* the weights mapping outweighs it.
C8_MaxWeightIsOne ==
    NormComputed =>
        /\ \A a \in DOMAIN new_rule[1].delta :
              new_rule[1].delta[a] = max_delta(new_rule[1])
                  => norm_delta(new_rule[1])[a] = PyFloat(1, 1)
        /\ \A a \in MaxAntecedents(new_rule[1]) :
              norm_delta(new_rule[1])[a] = PyFloat(1, 1)
                  <=> new_rule[1].delta[a] = max_delta(new_rule[1])

C8_Witness ==
    /\ NormComputed
    /\ new_rule[1].A_values = [a1 |-> "hi"]
    /\ new_rule[1].delta = [a1 |-> 2, a2 |-> 1]
    /\ outcome.line = 50

\* C9: with evidence for all antecedent attributes, get_matching_degree
\* returns alpha in [0,1], and alpha is 0 if some required value has belief
\* degree 0 or is absent from the evidence.
C9_MatchingDegreeReturned ==
    (op = "get_matching_degree" /\ assert_input(new_rule[1], X)) =>
        /\ outcome.kind = "return"
        /\ 0 <= outcome.value.num /\ outcome.value.num <= outcome.value.den
        /\ ZeroMatch(new_rule[1], X) => outcome.value.num = 0

====
